---- MODULE Spec2Model ----
(***************************************************************************)
(* Model of the two variants of the "add an SVG table to a font" script:   *)
(*   src/addSVGtable.py   (variant "addSVGtable",   os.path based)         *)
(*   src/add_svg_table.py (variant "add_svg_table", pathlib based)         *)
(*                                                                         *)
(* Text is modelled character by character: a Python str is a sequence of  *)
(* one-character strings, so the four regular expressions and the three    *)
(* textual rewrites are computed on the characters, as `re` computes them. *)
(* The alphabet of the modelled documents holds no regular-expression      *)
(* metacharacter, so re.sub(match.group(1), ...) substitutes a literal.    *)
(***************************************************************************)
EXTENDS Integers, Sequences, FiniteSets, TLC

VARIABLES
    \* ---- the run of the script (specification Spec) ----
    variant,        \* which source file is run
    pc,             \* position inside __main__ / run() / process_font_file()
    run_no,         \* 1 for the first run, 2 for the repeated run
    font_map,       \* the font's glyph-name -> glyph-id map (font.getGlyphID)
    tree,           \* the files of the artwork folder, in enumeration order
    svg_file_paths, \* run(): svg_file_paths_list / svg_file_paths
    svg_docs_dict,  \* process_font_file(): glyph id -> [data, gid, gid]
    docList,        \* svg_table.docList as handed to the font
    saves,          \* number of font.save() calls of this run
    outcome,        \* how the run ended
    exit_status,    \* the process's exit status
    stderr,         \* messages written to sys.stderr, in order
    diag,           \* per-file diagnostics (print / warnings.warn), in order
    prev_run,       \* the order and the docList of the first run, kept for the repeated run
    \* ---- the text functions applied on their own (specification SpecFn) ----
    fn_pc, fn_data, fn_gid, fn_once, fn_twice, fn_box

pvars == <<variant, pc, run_no, font_map, tree, svg_file_paths, svg_docs_dict,
           docList, saves, outcome, exit_status, stderr, diag, prev_run>>
fvars == <<fn_pc, fn_data, fn_gid, fn_once, fn_twice, fn_box>>
vars == <<pvars, fvars>>

(***************************************************************************)
(* Bounds of the model.                                                    *)
(***************************************************************************)
MaxFiles == 2       \* files in the artwork folder
MaxAttrs == 1       \* attributes on the root tag of a generated document
MaxKids == 2        \* pieces of content inside a generated document

NoRun == [tree |-> <<>>, docList |-> <<>>]

(***************************************************************************)
(* Characters and literal texts.                                           *)
(***************************************************************************)
QUOTE == "\""
WhiteSpace == {" ", "\t", "\n"}                     \* \s, of the characters modelled
DigitChars == <<"0", "1", "2", "3", "4", "5", "6", "7", "8", "9">>

T_svg == <<"<", "s", "v", "g">>                      \* <svg
T_svg_end == <<"<", "/", "s", "v", "g", ">">>        \* </svg>
T_id_eq == <<"i", "d", "=", QUOTE>>                  \* id="
T_glyph == <<"g", "l", "y", "p", "h">>               \* glyph
T_view_box_eq == <<"v", "i", "e", "w", "_", "b", "o", "x", "=">>   \* view_box=
T_fixed_view_box == T_view_box_eq \o
    <<QUOTE, "0", " ", "1", "0", "0", "0", " ", "1", "0", "0", "0", " ",
      "1", "0", "0", "0", QUOTE>>                    \* view_box="0 1000 1000 1000"
T_joined == <<">", "<">>                             \* ><

Min(S) == CHOOSE x \in S : \A y \in S : x <= y
Max(S) == CHOOSE x \in S : \A y \in S : x >= y

\* pat occurs in s at position i (1-based)
IsAt(s, pat, i) ==
    /\ i >= 1
    /\ i + Len(pat) - 1 <= Len(s)
    /\ \A k \in 1..Len(pat) : s[i + k - 1] = pat[k]

Contains(s, pat) == \E i \in 1..Len(s) : IsAt(s, pat, i)

\* "{}".format(gid) for a non-negative integer
RECURSIVE Decimal(_)
Decimal(n) == IF n < 10 THEN <<DigitChars[n + 1]>>
              ELSE Decimal(n \div 10) \o <<DigitChars[(n % 10) + 1]>>

\* 'id="glyph{}"'.format(gid)
IdAttr(gid) == T_id_eq \o T_glyph \o Decimal(gid) \o <<QUOTE>>

(***************************************************************************)
(* re.sub(pattern, repl, data) and str.replace(old, new) for a literal,    *)
(* non-empty pattern: every non-overlapping occurrence, leftmost first.    *)
(***************************************************************************)
RECURSIVE ReplaceFrom(_, _, _, _)
ReplaceFrom(pat, repl, data, i) ==
    IF i > Len(data) THEN <<>>
    ELSE IF IsAt(data, pat, i)
         THEN repl \o ReplaceFrom(pat, repl, data, i + Len(pat))
         ELSE <<data[i]>> \o ReplaceFrom(pat, repl, data, i + 1)

\* re.sub(pattern, repl, data, count=1): the first occurrence only
RECURSIVE ReplaceFirstFrom(_, _, _, _)
ReplaceFirstFrom(pat, repl, data, i) ==
    IF i > Len(data) THEN <<>>
    ELSE IF IsAt(data, pat, i)
         THEN repl \o SubSeq(data, i + Len(pat), Len(data))
         ELSE <<data[i]>> \o ReplaceFirstFrom(pat, repl, data, i + 1)

re_sub_first(pat, repl, data) == ReplaceFirstFrom(pat, repl, data, 1)

re_sub(pat, repl, data) == ReplaceFrom(pat, repl, data, 1)

(***************************************************************************)
(* svg_element_regex = r"<svg.+?>.+?</svg>" (DOTALL): search() finds a     *)
(* match iff some "<svg" is followed by at least one character, a ">", at  *)
(* least one character and "</svg>".                                       *)
(***************************************************************************)
svg_element_regex(data) ==
    \E i \in 1..Len(data) :
        /\ IsAt(data, T_svg, i)
        /\ \E j \in (i + 5)..Len(data) :
              /\ data[j] = ">"
              /\ \E k \in (j + 2)..Len(data) : IsAt(data, T_svg_end, k)

(***************************************************************************)
(* id_value_regex = r"<svg[^>]+?(id=\".*?\").+?>" (DOTALL).                *)
(* A match is: "<svg" at i, one or more characters other than ">", id=" at *)
(* p, the closing quote at q, at least one character, then a ">".  The     *)
(* search takes the leftmost i, and the lazy quantifiers the least p and   *)
(* then the least q for which the rest still matches.                      *)
(***************************************************************************)
IdGroupEnds(data, p) ==
    { q \in (p + 4)..Len(data) :
        /\ data[q] = QUOTE
        /\ \E r \in (q + 2)..Len(data) : data[r] = ">" }

IdGroupStarts(data, i) ==
    { p \in (i + 5)..Len(data) :
        /\ IsAt(data, T_id_eq, p)
        /\ \A k \in (i + 4)..(p - 1) : data[k] # ">"
        /\ IdGroupEnds(data, p) # {} }

IdMatchStarts(data) ==
    { i \in 1..Len(data) : IsAt(data, T_svg, i) /\ IdGroupStarts(data, i) # {} }

\* search(): <<>> for None, else the text of group(1)
id_value_regex(data) ==
    IF IdMatchStarts(data) = {} THEN <<>>
    ELSE LET i == Min(IdMatchStarts(data))
             p == Min(IdGroupStarts(data, i))
             q == Min(IdGroupEnds(data, p))
         IN  SubSeq(data, p, q)

set_id_value(data, gid) ==
    LET id == id_value_regex(data) IN
    IF id # <<>>
    THEN re_sub(id, IdAttr(gid), data)
    ELSE re_sub(T_svg, T_svg \o <<" ">> \o IdAttr(gid), data)

(***************************************************************************)
(* view_box_regex = r"<svg.+?(view_box=[\"|\'][\d, ]+[\"|\']).+?>"         *)
(* (DOTALL).  A match is: "<svg" at i, at least one character (any, ">"    *)
(* included), view_box= at p, a character of the class "|' , a non-empty   *)
(* run of digits, commas and spaces, again a character of the class, at    *)
(* least one character, then a ">".  The run is greedy and the class and   *)
(* the run share no character, so the run is the maximal one.              *)
(***************************************************************************)
BoxQuote == {QUOTE, "|", "'"}
BoxRun == {"0", "1", "2", "3", "4", "5", "6", "7", "8", "9", ",", " "}

\* the last position of the maximal run of BoxRun characters starting at a
RunEnd(data, a) ==
    Max({ e \in (a - 1)..Len(data) : \A k \in a..e : data[k] \in BoxRun })

\* position of the closing quote of the group starting at p, or 0
BoxGroupEnd(data, p) ==
    LET a == p + 10
        e == RunEnd(data, a)
    IN  IF /\ IsAt(data, T_view_box_eq, p)
           /\ p + 9 <= Len(data)
           /\ data[p + 9] \in BoxQuote
           /\ e >= a
           /\ e + 1 <= Len(data)
           /\ data[e + 1] \in BoxQuote
           /\ \E r \in (e + 3)..Len(data) : data[r] = ">"
        THEN e + 1 ELSE 0

BoxGroupStarts(data, i) ==
    { p \in (i + 5)..Len(data) : BoxGroupEnd(data, p) # 0 }

BoxMatchStarts(data) ==
    { i \in 1..Len(data) : IsAt(data, T_svg, i) /\ BoxGroupStarts(data, i) # {} }

\* search(): <<>> for None, else the text of group(1)
view_box_regex(data) ==
    IF BoxMatchStarts(data) = {} THEN <<>>
    ELSE LET i == Min(BoxMatchStarts(data))
             p == Min(BoxGroupStarts(data, i))
         IN  SubSeq(data, p, BoxGroupEnd(data, p))

\* fix_view_box that repairs the first occurrence only (count=1)
fix_view_box_first_only(data) ==
    LET view_box == view_box_regex(data) IN
    IF view_box = <<>> THEN data
    ELSE re_sub_first(view_box, T_fixed_view_box, data)

fix_view_box(data) ==
    LET view_box == view_box_regex(data) IN
    IF view_box = <<>> THEN data
    ELSE re_sub(view_box, T_fixed_view_box, data)

(***************************************************************************)
(* white_space_regex = r">\s+<": findall() gives the matched texts; each   *)
(* distinct one is then replaced by "><" with str.replace.  A match starts *)
(* with ">" and ends with "<" with only white space between, so no two     *)
(* matches overlap and the order of the replacements does not matter.      *)
(***************************************************************************)
white_space_regex(data) ==
    { SubSeq(data, i, j) : <<i, j>> \in
        { x \in (1..Len(data)) \X (1..Len(data)) :
            /\ x[2] > x[1] + 1
            /\ data[x[1]] = ">"
            /\ data[x[2]] = "<"
            /\ \A k \in (x[1] + 1)..(x[2] - 1) : data[k] \in WhiteSpace } }

RECURSIVE ReplaceEach(_, _)
ReplaceEach(found, data) ==
    IF found = {} THEN data
    ELSE LET white_space == CHOOSE w \in found : TRUE
         IN  ReplaceEach(found \ {white_space}, re_sub(white_space, T_joined, data))

\* str.strip()
strip(data) ==
    LET keep == { k \in 1..Len(data) : data[k] \notin WhiteSpace } IN
    IF keep = {} THEN <<>> ELSE SubSeq(data, Min(keep), Max(keep))

\* the document text of one record: process_font_file, the body of the loop
svg_item_data(data, gid) ==
    LET with_id == set_id_value(data, gid)
        with_box == fix_view_box(with_id)
    IN  strip(ReplaceEach(white_space_regex(with_box), with_box))

(***************************************************************************)
(* The documents the text functions are applied to: a root tag with up to  *)
(* MaxAttrs attributes, up to MaxKids pieces of content, and the closing   *)
(* tag or nothing (a truncated file).                                      *)
(***************************************************************************)
A_plain == <<" ", "a">>                                             \*  a
A_id == <<" ", "i", "d", "=", QUOTE, "a", QUOTE>>                   \*  id="a"
A_box4 == <<" ">> \o T_view_box_eq \o
          <<QUOTE, "1", " ", "2", " ", "3", " ", "4", QUOTE>>       \*  view_box="1 2 3 4"
A_box1 == <<" ">> \o T_view_box_eq \o <<QUOTE, "7", QUOTE>>         \*  view_box="7"
K_path == <<"<", "p", "a", "t", "h", "/", ">">>                     \* <path/>
K_text == <<"t">>                                                   \* t
K_svg == T_svg \o <<" ", "a", "/", ">">>                            \* <svg a/>
K_g_id == <<"<", "g", " ", "i", "d", "=", QUOTE, "a", QUOTE, "/", ">">>   \* <g id="a"/>
K_g_box == <<"<", "g", " ">> \o T_view_box_eq \o
           <<QUOTE, "7", QUOTE, "/", ">">>                          \* <g view_box="7"/>

AttrSet == {A_plain, A_id, A_box4, A_box1}
KidSet == {K_path, K_text, K_svg, K_g_id, K_g_box}
CloseSet == {T_svg_end, <<>>}
FnGids == {5, 12}

SeqsUpTo(S, n) == UNION { [1..k -> S] : k \in 0..n }

RECURSIVE Flatten(_)
Flatten(ss) == IF ss = <<>> THEN <<>> ELSE Head(ss) \o Flatten(Tail(ss))

\* the root opening tag with the attributes as
RootTag(as) == T_svg \o Flatten(as) \o <<">">>

Docs ==
    { RootTag(as) \o Flatten(ks) \o c :
        as \in SeqsUpTo(AttrSet, MaxAttrs), ks \in SeqsUpTo(KidSet, MaxKids),
        c \in CloseSet }

(***************************************************************************)
(* The run is idle while the text functions are applied on their own, and  *)
(* the other way round.                                                    *)
(***************************************************************************)
RunIdle ==
    /\ variant = "none" /\ pc = "off" /\ run_no = 0 /\ font_map = <<>> /\ tree = <<>>
    /\ svg_file_paths = <<>> /\ svg_docs_dict = <<>> /\ docList = <<>> /\ saves = 0
    /\ outcome = "none" /\ exit_status = 0 /\ stderr = <<>> /\ diag = <<>>
    /\ prev_run = NoRun

FnIdle ==
    /\ fn_pc = "off" /\ fn_data = <<>> /\ fn_gid = 0
    /\ fn_once = <<>> /\ fn_twice = <<>> /\ fn_box = <<>>

FnInit ==
    /\ RunIdle
    /\ fn_pc = "in"
    /\ fn_data \in Docs
    /\ fn_gid \in FnGids
    /\ fn_once = <<>> /\ fn_twice = <<>> /\ fn_box = <<>>

\* set_id_value(data, gid)
FnSetId ==
    /\ fn_pc = "in"
    /\ fn_once' = set_id_value(fn_data, fn_gid)
    /\ fn_pc' = "once"
    /\ UNCHANGED <<fn_data, fn_gid, fn_twice, fn_box, pvars>>

\* set_id_value(set_id_value(data, gid), gid)
FnSetIdAgain ==
    /\ fn_pc = "once"
    /\ fn_twice' = set_id_value(fn_once, fn_gid)
    /\ fn_pc' = "twice"
    /\ UNCHANGED <<fn_data, fn_gid, fn_once, fn_box, pvars>>

\* fix_view_box(data)
FnFixViewBox ==
    /\ fn_pc = "twice"
    /\ fn_box' = fix_view_box(fn_data)
    /\ fn_pc' = "done"
    /\ UNCHANGED <<fn_data, fn_gid, fn_once, fn_twice, pvars>>

FnNext == FnSetId \/ FnSetIdAgain \/ FnFixViewBox

SpecFn == FnInit /\ [][FnNext]_vars

(***************************************************************************)
(* The run of the script.                                                  *)
(*                                                                         *)
(* A file of the artwork folder is [dir, name, data]: the folder it lies   *)
(* in ("" for the artwork folder itself, else the name of a subfolder of   *)
(* it), its file name (characters) and its text.  The folder tree is the   *)
(* sequence of its files in the order os.walk / Path.rglob enumerates      *)
(* them.  Both go through the tree top-down: the files of a folder come    *)
(* together and before those of its subfolders.  The order of the entries  *)
(* of one folder, files and subfolders alike, is the one os.scandir gives, *)
(* which the file system decides.  All modelled names end in .svg, so both *)
(* variants discover the same files.                                       *)
(***************************************************************************)
Variants == {"addSVGtable", "add_svg_table"}

N_A == <<"A", ".", "s", "v", "g">>                                   \* A.svg
N_B == <<"B", ".", "s", "v", "g">>                                   \* B.svg
N_Z == <<"Z", ".", "s", "v", "g">>                                   \* Z.svg
N_hidden == <<".", "g", "l", "y", "p", "h", "A", ".", "s", "v", "g">>  \* .glyphA.svg

\* A.svg, sub/A.svg, alt/A.svg, B.svg, Z.svg, .glyphA.svg
PathSet == { [dir |-> "", name |-> N_A], [dir |-> "sub", name |-> N_A],
             [dir |-> "alt", name |-> N_A],
             [dir |-> "", name |-> N_B], [dir |-> "", name |-> N_Z],
             [dir |-> "", name |-> N_hidden] }

D_bare == T_svg \o <<">">> \o K_path \o T_svg_end        \* <svg><path/></svg>
D_plain == RootTag(<<A_plain>>) \o K_path \o T_svg_end   \* <svg a><path/></svg>
D_id == <<" ">> \o RootTag(<<A_id, A_plain>>) \o <<" ">> \o K_path \o <<" ", " ">>
        \o K_text \o T_svg_end \o <<" ">>         \*  <svg id="a" a> <path/>  t</svg> (blanks around)
FileDocs == {D_bare, D_plain, D_id}

FileSet == { [dir |-> p.dir, name |-> p.name, data |-> d] : p \in PathSet, d \in FileDocs }

PathOf(f) == [dir |-> f.dir, name |-> f.name]

\* for root, dirs, files in os.walk(folder) / folder.rglob("*.svg"): the
\* files of the artwork folder itself come first, then those of each
\* subfolder, together
TopDown(t) ==
    /\ \A i, j \in 1..Len(t) : (i < j /\ t[j].dir = "") => t[i].dir = ""
    /\ \A i, k \in 1..Len(t) :
          (i < k /\ t[i].dir = t[k].dir) => \A j \in i..k : t[j].dir = t[i].dir

Trees == { t \in SeqsUpTo(FileSet, MaxFiles) :
             /\ \A i, j \in 1..Len(t) : i # j => PathOf(t[i]) # PathOf(t[j])
             /\ TopDown(t) }

\* the glyph names of the font and their ids: what font.getGlyphID looks up
FontMaps == { (<<"A">> :> 5 @@ <<"B">> :> 12), (<<"B">> :> 7 @@ <<"C">> :> 5) }

\* the first four bytes of the font file: OTTO, 00 01 00 00, true, wOFF
Headers == { <<79, 84, 84, 79>>, <<0, 1, 0, 0>>, <<116, 114, 117, 101>>,
             <<119, 79, 70, 70>> }

get_font_format(head) ==
    IF head = <<79, 84, 84, 79>> THEN "OTF"
    ELSE IF head \in { <<0, 1, 0, 0>>, <<116, 114, 117, 101>> } THEN "TTF"
    ELSE "None"

read_file(file) == file.data

\* os.path.splitext(name)[0] / Path.stem: the name up to its last dot, a dot
\* that only leading dots precede not counting
get_glyph_name_from_file_name(file) ==
    LET name == file.name
        dots == { k \in 1..Len(name) :
                    name[k] = "." /\ \E j \in 1..(k - 1) : name[j] # "." }
    IN  IF dots = {} THEN name ELSE SubSeq(name, 1, Max(dots) - 1)

\* filename[0] == "." / file_path.name.startswith(".")
is_hidden(file) == Len(file.name) > 0 /\ file.name[1] = "."

\* font.getGlyphID(glyph_name) raises KeyError
KeyError(font, glyph_name) == glyph_name \notin DOMAIN font

(***************************************************************************)
(* validate_svg_files: the paths kept, and the warnings given.             *)
(***************************************************************************)
RECURSIVE validate_svg_files(_)
validate_svg_files(paths) ==
    IF paths = <<>> THEN <<>>
    ELSE LET file_path == Head(paths) IN
         IF is_hidden(file_path) THEN validate_svg_files(Tail(paths))
         ELSE IF ~svg_element_regex(read_file(file_path))
              THEN validate_svg_files(Tail(paths))
         ELSE <<file_path>> \o validate_svg_files(Tail(paths))

RECURSIVE validate_warnings(_, _)
validate_warnings(v, paths) ==
    IF paths = <<>> THEN <<>>
    ELSE LET file_path == Head(paths) IN
         IF is_hidden(file_path) \/ svg_element_regex(read_file(file_path))
         THEN validate_warnings(v, Tail(paths))
         ELSE <<[stream |-> IF v = "addSVGtable" THEN "stdout" ELSE "stderr",
                 kind |-> "no_svg_element", path |-> PathOf(file_path),
                 glyph |-> get_glyph_name_from_file_name(file_path)]>>
              \o validate_warnings(v, Tail(paths))

(***************************************************************************)
(* process_font_file: the loop that fills svg_docs_dict.  A Python dict    *)
(* keeps its keys in insertion order, and an assignment to a key it holds  *)
(* replaces the value where it is: the dict is a sequence of <<key,        *)
(* value>> pairs with distinct keys.                                       *)
(***************************************************************************)
Keys(dict) == { dict[k][1] : k \in 1..Len(dict) }
Get(dict, key) == dict[CHOOSE k \in 1..Len(dict) : dict[k][1] = key][2]

\* a dict that keeps the value a key already has
dict_set_if_absent(dict, key, value) ==
    IF key \in Keys(dict) THEN dict ELSE Append(dict, <<key, value>>)

\* svg_docs_dict[gid] = svg_items_list
dict_set(dict, key, value) ==
    IF key \in Keys(dict)
    THEN [k \in 1..Len(dict) |-> IF dict[k][1] = key THEN <<key, value>> ELSE dict[k]]
    ELSE Append(dict, <<key, value>>)

\* svg_items_list: [data, gid, gid]
svg_items_list(file, gid) == <<svg_item_data(read_file(file), gid), gid, gid>>

\* the loop that stops at the first glyph name the font does not have
RECURSIVE accumulate_break(_, _, _)
accumulate_break(font, dict, paths) ==
    IF paths = <<>> THEN dict
    ELSE LET svg_file_path == Head(paths)
             glyph_name == get_glyph_name_from_file_name(svg_file_path)
         IN  IF KeyError(font, glyph_name) THEN dict
             ELSE accumulate_break(font,
                      dict_set(dict, font[glyph_name],
                               svg_items_list(svg_file_path, font[glyph_name])),
                      Tail(paths))

RECURSIVE accumulate(_, _, _)
accumulate(font, dict, paths) ==
    IF paths = <<>> THEN dict
    ELSE LET svg_file_path == Head(paths)
             glyph_name == get_glyph_name_from_file_name(svg_file_path)
         IN  IF KeyError(font, glyph_name)
             THEN accumulate(font, dict, Tail(paths))
             ELSE accumulate(font,
                      dict_set(dict, font[glyph_name],
                               svg_items_list(svg_file_path, font[glyph_name])),
                      Tail(paths))

\* The messages of the loop.  addSVGtable.py prints each to sys.stderr;
\* add_svg_table.py gives it to warnings.warn, which shows a message of the
\* same text (the same glyph name and font) from the same line once only:
\* warned holds the glyph names already shown.
RECURSIVE accumulate_errors(_, _, _, _)
accumulate_errors(v, font, paths, warned) ==
    IF paths = <<>> THEN <<>>
    ELSE LET svg_file_path == Head(paths)
             glyph_name == get_glyph_name_from_file_name(svg_file_path)
         IN  IF ~KeyError(font, glyph_name)
             THEN accumulate_errors(v, font, Tail(paths), warned)
             ELSE IF v = "add_svg_table" /\ glyph_name \in warned
             THEN accumulate_errors(v, font, Tail(paths), warned)
             ELSE <<[stream |-> "stderr", kind |-> "no_glyph",
                     path |-> PathOf(svg_file_path), glyph |-> glyph_name]>>
                  \o accumulate_errors(v, font, Tail(paths), warned \cup {glyph_name})

\* `if not svg_docs_dict` skipped: the table is installed whatever the dict holds
no_svg_data_unchecked(dict) == FALSE

\* if not svg_docs_dict
no_svg_data(dict) == dict = <<>>

\* the values in the order of insertion, with no sorting
svg_docs_list_unsorted(dict) == [k \in 1..Len(dict) |-> dict[k][2]]

\* [svg_docs_dict[index] for index in sorted(svg_docs_dict.keys())]
RECURSIVE SortedFrom(_, _)
SortedFrom(dict, keys) ==
    IF keys = {} THEN <<>>
    ELSE <<Get(dict, Min(keys))>> \o SortedFrom(dict, keys \ {Min(keys)})

svg_docs_list(dict) == SortedFrom(dict, Keys(dict))

(***************************************************************************)
(* How a fatal condition ends the process.  addSVGtable.py prints the      *)
(* message to sys.stderr and returns, so the interpreter exits with status *)
(* 0; add_svg_table.py calls sys.exit(message), which prints it to         *)
(* sys.stderr and exits with status 1.                                     *)
(***************************************************************************)
fatal_status(v) == IF v = "addSVGtable" THEN 0 ELSE 1

Fatal(kind, message) ==
    /\ pc' = "done"
    /\ outcome' = kind
    /\ stderr' = Append(stderr, message)
    /\ exit_status' = fatal_status(variant)

Init ==
    /\ FnIdle
    /\ variant \in Variants
    /\ font_map \in FontMaps
    /\ tree \in Trees
    /\ pc = "main" /\ run_no = 1
    /\ svg_file_paths = <<>> /\ svg_docs_dict = <<>> /\ docList = <<>>
    /\ saves = 0 /\ outcome = "none" /\ exit_status = -1
    /\ stderr = <<>> /\ diag = <<>> /\ prev_run = NoRun

\* The repeated run is given the arguments, the font and the folder of the
\* first run, so its checks of them pass as they did then.
ArgCounts == IF run_no = 1 THEN {2, 3} ELSE {3}
Truths == IF run_no = 1 THEN BOOLEAN ELSE {TRUE}
FontHeads == IF run_no = 1 THEN Headers
             ELSE { h \in Headers : get_font_format(h) \in {"OTF", "TTF"} }

\* __main__: the count of the arguments
Main ==
    /\ pc = "main"
    /\ \E argc \in ArgCounts :
          IF argc # 3
          THEN /\ pc' = "done" /\ outcome' = "usage" /\ exit_status' = 0
               /\ UNCHANGED stderr
          ELSE /\ pc' = "font"
               /\ UNCHANGED <<outcome, exit_status, stderr>>
    /\ UNCHANGED <<variant, run_no, font_map, tree, svg_file_paths, svg_docs_dict,
                   docList, saves, diag, prev_run, fvars>>

\* run(): the font file path
RunFont ==
    /\ pc = "font"
    /\ \E is_file \in Truths, head \in FontHeads :
          IF ~is_file
          THEN Fatal("FatalInput", "The path to the font is invalid.")
          ELSE IF get_font_format(head) \notin {"OTF", "TTF"}
          THEN Fatal("FatalInput", "The path is not a valid OTF or TTF font.")
          ELSE /\ pc' = "folder"
               /\ UNCHANGED <<outcome, exit_status, stderr>>
    /\ UNCHANGED <<variant, run_no, font_map, tree, svg_file_paths, svg_docs_dict,
                   docList, saves, diag, prev_run, fvars>>

\* run(): the SVG folder path, and the enumeration of its files
RunFolder ==
    /\ pc = "folder"
    /\ \E is_dir \in Truths :
          IF ~is_dir
          THEN /\ Fatal("FatalInput",
                        "The path to the folder containing the SVG files is invalid.")
               /\ UNCHANGED svg_file_paths
          ELSE /\ svg_file_paths' = tree
               /\ pc' = "validate"
               /\ UNCHANGED <<outcome, exit_status, stderr>>
    /\ UNCHANGED <<variant, run_no, font_map, tree, svg_docs_dict,
                   docList, saves, diag, prev_run, fvars>>

\* run(): validate_svg_files and the test of its result
RunValidate ==
    /\ pc = "validate"
    /\ svg_file_paths' = validate_svg_files(svg_file_paths)
    /\ diag' = diag \o validate_warnings(variant, svg_file_paths)
    /\ IF svg_file_paths' = <<>>
       THEN Fatal("FatalEmpty", "No SVG files were found.")
       ELSE /\ pc' = "process"
            /\ UNCHANGED <<outcome, exit_status, stderr>>
    /\ UNCHANGED <<variant, run_no, font_map, tree, svg_docs_dict,
                   docList, saves, prev_run, fvars>>

\* process_font_file(): the loop over the validated paths
ProcessAccumulate ==
    /\ pc = "process"
    /\ svg_docs_dict' = accumulate(font_map, <<>>, svg_file_paths)
    /\ diag' = diag \o accumulate_errors(variant, font_map, svg_file_paths, {})
    /\ pc' = "assemble"
    /\ UNCHANGED <<variant, run_no, font_map, tree, svg_file_paths, docList, saves,
                   outcome, exit_status, stderr, prev_run, fvars>>

\* process_font_file(): the test of the dict, the table and font.save
ProcessSave ==
    /\ pc = "assemble"
    /\ IF no_svg_data(svg_docs_dict)
       THEN /\ Fatal("FatalEmpty",
                     "Could not find any artwork files that can be added to the font.")
            /\ UNCHANGED <<docList, saves>>
       ELSE /\ docList' = svg_docs_list(svg_docs_dict)
            /\ saves' = saves + 1
            /\ stderr' = Append(stderr, "SVG table successfully added")
            /\ outcome' = "success"
            /\ exit_status' = 0
            /\ pc' = "done"
    /\ UNCHANGED <<variant, run_no, font_map, tree, svg_file_paths, svg_docs_dict,
                   diag, prev_run, fvars>>

\* The top-down orders of the same files: those in which the entries of the
\* single folders are listed in another order.
Orders(t) ==
    { u \in { [i \in 1..Len(t) |-> t[f[i]]] :
                f \in { g \in [1..Len(t) -> 1..Len(t)] :
                          \A i, j \in 1..Len(t) : i # j => g[i] # g[j] } } :
        TopDown(u) }

\* the second run starts: the state of run() and process_font_file() is new
StartRerun ==
    /\ prev_run' = [tree |-> tree, docList |-> docList]
    /\ run_no' = 2
    /\ pc' = "main"
    /\ svg_file_paths' = <<>> /\ svg_docs_dict' = <<>> /\ docList' = <<>>
    /\ saves' = 0 /\ outcome' = "none" /\ exit_status' = -1
    /\ stderr' = <<>> /\ diag' = <<>>
    /\ UNCHANGED <<variant, font_map, fvars>>

\* The script is run again on the same font and the untouched folder: the
\* file system lists it as it did for the first run.
Rerun ==
    /\ pc = "done" /\ run_no = 1
    /\ outcome \in {"success", "FatalEmpty"}
    /\ tree' = tree
    /\ StartRerun

\* The same files, under the same paths and with the same texts, are written
\* anew (the folder is checked out, copied or restored) and the script is run
\* again on the same font.  The file system lists the entries of a folder in
\* an order that depends on how they were written (on tmpfs, the order of
\* their creation), so the traversal yields another top-down order.
RerunRewritten ==
    /\ pc = "done" /\ run_no = 1
    /\ outcome \in {"success", "FatalEmpty"}
    /\ \E t \in Orders(tree) \ {tree} : tree' = t
    /\ StartRerun

Next ==
    \/ Main
    \/ RunFont
    \/ RunFolder
    \/ RunValidate
    \/ ProcessAccumulate
    \/ ProcessSave
    \/ Rerun
    \/ RerunRewritten

Spec == Init /\ [][Next]_vars

(***************************************************************************)
(* Properties of the run (specification Spec).                             *)
(***************************************************************************)
GlyphName(file) == get_glyph_name_from_file_name(file)
Resolves(file) == GlyphName(file) \in DOMAIN font_map
GidOf(file) == font_map[GlyphName(file)]
RunEnded == pc = "done" /\ outcome \in {"success", "FatalEmpty"}

\* the files of the folder that are not hidden, hold an <svg> element and are
\* named after a glyph of the font
Survivors ==
    { k \in 1..Len(tree) :
        /\ ~is_hidden(tree[k])
        /\ svg_element_regex(tree[k].data)
        /\ Resolves(tree[k]) }
SurvivorGids == { GidOf(tree[k]) : k \in Survivors }
\* the files that are not hidden and are dropped by validation or resolution
Dropped == { k \in 1..Len(tree) : ~is_hidden(tree[k]) /\ k \notin Survivors }

\* C1: the record list handed to the font is strictly ascending by glyph id,
\* so no two of its records have the same glyph id.
C1_DocListStrictlyAscending ==
    \A i, j \in 1..Len(docList) : i < j => docList[i][2] < docList[j][2]

\* C1 happens: two files were processed in descending order of glyph id and
\* both are in the table.
C1_Witness ==
    /\ pc = "done" /\ outcome = "success"
    /\ Len(svg_file_paths) = 2 /\ Len(docList) = 2
    /\ GidOf(svg_file_paths[1]) > GidOf(svg_file_paths[2])

\* C2: the folder holding the single file A.svg with the text
\* <svg><path/></svg>, on a font whose glyph A has id 5, gives a table of one
\* record (text with id="glyph5", 5, 5); and every file that is not hidden and
\* holds "<svg", a later ">" and a later "</svg>" passes validate_svg_files.
C2_BareSvgYieldsRecord ==
    /\ ( /\ pc = "done" /\ outcome \notin {"usage", "FatalInput"}
         /\ tree = <<[dir |-> "", name |-> N_A, data |-> D_bare]>>
         /\ <<"A">> \in DOMAIN font_map /\ font_map[<<"A">>] = 5 )
       => ( /\ outcome = "success"
            /\ Len(docList) = 1
            /\ Contains(docList[1][1], IdAttr(5))
            /\ docList[1][2] = 5 /\ docList[1][3] = 5 )
    /\ (pc \in {"process", "assemble", "done"} /\ outcome \notin {"usage", "FatalInput"})
       => \A k \in 1..Len(tree) :
             ( /\ ~is_hidden(tree[k])
               /\ \E i \in 1..Len(tree[k].data) :
                     /\ IsAt(tree[k].data, T_svg, i)
                     /\ \E j \in (i + 4)..Len(tree[k].data) :
                           /\ tree[k].data[j] = ">"
                           /\ \E m \in (j + 1)..Len(tree[k].data) :
                                 IsAt(tree[k].data, T_svg_end, m) )
             => \E n \in 1..Len(svg_file_paths) : svg_file_paths[n] = tree[k]

\* the validated file processed last among those resolving to gid
LastFor(gid) ==
    svg_file_paths[Max({ k \in 1..Len(svg_file_paths) :
                           /\ Resolves(svg_file_paths[k])
                           /\ GidOf(svg_file_paths[k]) = gid })]

\* C3: for each glyph id some processed file resolves to, the table holds
\* exactly one record, and it is the normalized text of the file processed
\* last among them, with the range (gid, gid).
C3_LastWriteWins ==
    (pc = "done" /\ outcome = "success")
    => \A n \in 1..Len(svg_file_paths) :
          Resolves(svg_file_paths[n])
          => LET gid == GidOf(svg_file_paths[n])
                 recs == { k \in 1..Len(docList) : docList[k][2] = gid }
             IN  /\ Cardinality(recs) = 1
                 /\ \A k \in recs :
                       docList[k] = <<svg_item_data(LastFor(gid).data, gid), gid, gid>>

\* C3 happens: two processed files with different texts resolve to one glyph id.
C3_Witness ==
    /\ pc = "done" /\ outcome = "success"
    /\ \E i, j \in 1..Len(svg_file_paths) :
          /\ i < j
          /\ Resolves(svg_file_paths[i]) /\ Resolves(svg_file_paths[j])
          /\ GidOf(svg_file_paths[i]) = GidOf(svg_file_paths[j])
          /\ svg_file_paths[i].data # svg_file_paths[j].data

\* C4: a run that ends on a fatal condition has written a message to the
\* diagnostic stream and exits with a non-zero status; status zero is that of
\* the success path and of the usage path only.
C4_FatalExitsNonZero ==
    pc = "done"
    => /\ outcome \in {"FatalInput", "FatalEmpty"}
          => (exit_status # 0 /\ stderr # <<>>)
       /\ exit_status = 0 => outcome \in {"success", "usage"}

\* C5: the font is saved at most once per run and only with a non-empty
\* record set; a run in which no file survives validation and resolution ends
\* in FatalEmpty without saving the font.
C5_SavedOnlyWithRecords ==
    /\ saves <= 1
    /\ saves = 1 => (svg_docs_dict # <<>> /\ docList # <<>> /\ Survivors # {})
    /\ (pc = "done" /\ outcome \notin {"usage", "FatalInput"} /\ Survivors = {})
       => (outcome = "FatalEmpty" /\ saves = 0)

\* C5 happens: the folder holds hidden files only, each with an <svg> element,
\* and the run has ended in FatalEmpty.
C5_Witness ==
    /\ pc = "done" /\ outcome = "FatalEmpty"
    /\ Len(tree) >= 1
    /\ \A k \in 1..Len(tree) :
          is_hidden(tree[k]) /\ svg_element_regex(tree[k].data)

\* C6: the second run on the same files and the same font gives the record
\* list of the first run, whatever the order in which the files are
\* enumerated, also when several files resolve to the same glyph id.
C6_Determinism ==
    (run_no = 2 /\ pc = "done") => docList = prev_run.docList

\* the top-down traversal yields a before b in every order: a lies in the
\* artwork folder itself, b in a subfolder of it
Fixed(a, b) == a.dir = "" /\ b.dir # ""

\* two surviving files with different texts resolve to the same glyph id, and
\* the traversal does not fix which of them comes last
Conflict ==
    \E i, j \in Survivors :
        /\ i # j
        /\ GidOf(tree[i]) = GidOf(tree[j])
        /\ tree[i].data # tree[j].data
        /\ ~Fixed(tree[i], tree[j]) /\ ~Fixed(tree[j], tree[i])

\* C6 as amended: the second run gives the record list of the first run,
\* whatever the order in which the entries of each folder are listed, when
\* every two surviving files that resolve to the same glyph id have the same
\* text or lie one in the artwork folder and the other in a subfolder (the
\* traversal is top-down, so the file of the subfolder always comes last).
C6_DeterminismWithoutConflict ==
    (run_no = 2 /\ pc = "done" /\ ~Conflict) => docList = prev_run.docList

\* C6 happens: the second run enumerated the files in another order and its
\* table holds two records.
C6_Witness ==
    /\ run_no = 2 /\ pc = "done" /\ outcome = "success"
    /\ tree # prev_run.tree
    /\ Len(docList) = 2

\* the diagnostic d names the dropped file: a validation warning gives its
\* path, a resolution error its glyph name
Names(d, file) ==
    IF svg_element_regex(file.data)
    THEN d.kind = "no_glyph" /\ d.glyph = GlyphName(file)
    ELSE d.kind = "no_svg_element" /\ d.path = PathOf(file)

\* C10: a run that reaches validation goes through every file: it ends with
\* a table of exactly the glyph ids of the files that pass validation and
\* resolve and with a diagnostic naming each dropped file, and it fails only
\* when no file passes.
C10_PerFileFailureNeverAborts ==
    RunEnded
    => /\ { docList[k][2] : k \in 1..Len(docList) } = SurvivorGids
       /\ outcome = "FatalEmpty" <=> SurvivorGids = {}
       /\ \A k \in Dropped : \E n \in 1..Len(diag) : Names(diag[n], tree[k])

\* C10 happens: the first file enumerated was dropped, the second is in the
\* table.
C10_Witness ==
    /\ pc = "done" /\ outcome = "success"
    /\ Len(tree) = 2 /\ 1 \in Dropped /\ 2 \in Survivors

(***************************************************************************)
(* Properties of the text functions (specification SpecFn).                *)
(***************************************************************************)
FirstSvg(s) == Min({ i \in 1..Len(s) : IsAt(s, T_svg, i) })
RootClose(s) == Min({ j \in FirstSvg(s)..Len(s) : s[j] = ">" })
\* the first root opening tag, and the text after it
RootOf(s) == SubSeq(s, FirstSvg(s), RootClose(s))
AfterRoot(s) == SubSeq(s, RootClose(s) + 1, Len(s))
CountOf(s, pat) == Cardinality({ i \in 1..Len(s) : IsAt(s, pat, i) })

\* C7: set_id_value applied twice with the same glyph id gives what it gives
\* applied once.
C7_SetIdIdempotent ==
    fn_pc \in {"twice", "done"} => fn_twice = fn_once

\* the positions q of the closing quote of an attribute view_box=<quote><run of
\* digits, commas and blanks><quote> that starts at p
BoxAttrEnds(s, p) ==
    { q \in (p + 11)..Len(s) :
        /\ IsAt(s, T_view_box_eq, p)
        /\ s[p + 9] \in {QUOTE, "'"}
        /\ s[q] \in {QUOTE, "'"}
        /\ \A k \in (p + 10)..(q - 1) : s[k] \in BoxRun }

\* the integers of a run: the maximal groups of digits
IntsIn(s, a, b) ==
    Cardinality({ k \in a..b :
        /\ s[k] \notin {",", " "}
        /\ (k = a \/ s[k - 1] \in {",", " "}) })

\* the root opening tag holds a view_box attribute of exactly four integers
RootHasFourIntBox(s) ==
    \E p \in FirstSvg(s)..RootClose(s) : \E q \in BoxAttrEnds(s, p) :
        q < RootClose(s) /\ IntsIn(s, p + 10, q - 1) = 4

\* C8: fix_view_box changes a document only if its root element holds a
\* view_box attribute of exactly four integers in quotes.
C8_RepairOnlyFourIntegersOnRoot ==
    (fn_pc = "done" /\ fn_box # fn_data) => RootHasFourIntBox(fn_data)

\* C8 as amended: fix_view_box changes a document only if some "<svg" is
\* followed, after at least one character and anywhere in the text, by
\* view_box= and a quoted non-empty run of digits, commas and blanks (of any
\* number of integers); the result is the document with every occurrence of
\* that attribute text replaced by view_box="0 1000 1000 1000" and nothing
\* else altered.
C8_RepairOfAnyQuotedRun ==
    (fn_pc = "done" /\ fn_box # fn_data)
    => \E i \in 1..Len(fn_data) : \E p \in (i + 5)..Len(fn_data) :
          /\ IsAt(fn_data, T_svg, i)
          /\ \E q \in BoxAttrEnds(fn_data, p) :
                fn_box = re_sub(SubSeq(fn_data, p, q), T_fixed_view_box, fn_data)

\* C8 happens: a document whose root element has no four-integer view_box
\* attribute was changed by fix_view_box.
C8_Witness ==
    /\ fn_pc = "done" /\ fn_box # fn_data
    /\ ~RootHasFourIntBox(fn_data)

\* C9: after set_id_value on a document that passes validation, the first
\* root opening tag holds exactly one id attribute, with the value
\* glyph<gid>, and the text after that tag is as it was.
C9_OnlyRootTagTouched ==
    (fn_pc # "in" /\ svg_element_regex(fn_data))
    => /\ CountOf(RootOf(fn_once), T_id_eq) = 1
       /\ Contains(RootOf(fn_once), IdAttr(fn_gid))
       /\ AfterRoot(fn_once) = AfterRoot(fn_data)

====
